---- MODULE Spec2Model ----
(***************************************************************************)
(* Model of the job-application e-mail pipeline of CareerSuite.AI:         *)
(* processJobApplicationEmails (src/Main.js) reading a labelled mail queue *)
(* and reconciling each extraction into the "Applications" sheet.          *)
(***************************************************************************)
EXTENDS Integers, Sequences, FiniteSets, TLC

\* ---------------------------------------------------------------- bounds
MaxMsgs == 3
NumThreads == 2

\* ---------------------------------------------------- Config.js constants
DEFAULT_STATUS == "Applied"
REJECTED_STATUS == "Rejected"
OFFER_STATUS == "Offer Received"
ACCEPTED_STATUS == "Offer Accepted"
INTERVIEW_STATUS == "Interview Scheduled"
ASSESSMENT_STATUS == "Assessment/Screening"
APPLICATION_VIEWED_STATUS == "Application Viewed"
MANUAL_REVIEW_NEEDED == "N/A - Manual Review"
UPDATE_OTHER == "Update/Other"
THREAD_PROCESSING_LIMIT == 20

\* STATUS_HIERARCHY as a function over its keys.
STATUS_HIERARCHY ==
  [s \in {MANUAL_REVIEW_NEEDED, UPDATE_OTHER, DEFAULT_STATUS,
          APPLICATION_VIEWED_STATUS, ASSESSMENT_STATUS, INTERVIEW_STATUS,
          OFFER_STATUS, REJECTED_STATUS, ACCEPTED_STATUS} |->
     CASE s = MANUAL_REVIEW_NEEDED -> -1
       [] s = UPDATE_OTHER -> 0
       [] s = DEFAULT_STATUS -> 1
       [] s = APPLICATION_VIEWED_STATUS -> 2
       [] s = ASSESSMENT_STATUS -> 3
       [] s = INTERVIEW_STATUS -> 4
       [] s = OFFER_STATUS -> 5
       [] s = REJECTED_STATUS -> 5
       [] s = ACCEPTED_STATUS -> 6]

\* STATUS_HIERARCHY[s] ?? dflt
RankOr(s, dflt) == IF s \in DOMAIN STATUS_HIERARCHY THEN STATUS_HIERARCHY[s] ELSE dflt

\* the peak-exclusion set (exclPeak / exclPeakInit)
exclPeak == {REJECTED_STATUS, ACCEPTED_STATUS, MANUAL_REVIEW_NEEDED, UPDATE_OTHER}

\* A status string the oracle can return that is not a key of the hierarchy.
BLOCKED_STATUS == "Blocked: SAFETY"
\* applicationStatus === null
NullStatus == ""

\* String.prototype.toLowerCase on the strings of the model.
toLowerCase(s) ==
  CASE s = "Acme" -> "acme"
    [] s = "ACME" -> "acme"
    [] s = "Beta" -> "beta"
    [] s = "Dev" -> "dev"
    [] s = "DEV" -> "dev"
    [] s = "QA" -> "qa"
    [] s = MANUAL_REVIEW_NEEDED -> "n/a - manual review"
    [] OTHER -> s

\* ------------------------------------------------------------ the mailbox
MsgIds == 1..MaxMsgs
Threads == 1..NumThreads
\* thread of a message and its date (distinct dates, not in id order)
ThreadOf(m) == ((m - 1) % NumThreads) + 1
DateOf(m) == IF m % 2 = 1 THEN m + 1 ELSE m - 1

VARIABLES
  sheet,                     \* rows of the "Applications" tab (row k+1 of the sheet is sheet[k])
  mail,                      \* message ids present in the mailbox
  toProcessLbl,              \* threads carrying the "To Process" label
  processedLbl,              \* threads carrying the "Processed" label
  pc,                        \* position of processJobApplicationEmails
  existingDataCache,         \* company key -> sequence of cached row infos
  processedEmailIds,         \* the idempotence set of the current run
  messagesToSort,            \* the sorted messages of the current run
  i,                         \* loop index (1-based)
  threadProcessingOutcomes,  \* thread -> "done" | "manual"
  preloadedIds,              \* history: processedEmailIds as preloaded at run start
  folded,                    \* history: ids written and marked processed in an earlier run
  foldedThisRun,             \* history: ids written and marked processed in this run
  runWrites,                 \* history: <<company, title, row>> (lower case) written in this run
  lastOp,                    \* history: what the last per-message step did
  observed,                  \* history: per row, a summary of the statuses reconciled into it
  notDone,                   \* history: threads with a manual or failed message in this run
  scenarioStep,              \* history: how far the reconciliations so far follow the scenario
  runB,                      \* a second run of processJobApplicationEmails, overlapping the first
  sweep,                     \* markStaleApplicationsAsRejected between its read and its write
  leads,                     \* processJobLeads: its mailbox, labels, id set and position
  projectTriggers,           \* <<handler function, event type>> -> number of triggers of the project
  lastTriggerCall,           \* history: the last call of a trigger-creating function
  email,                     \* the message whose extraction is followed step by step
  opc,                       \* position of the extraction of that message
  attempt,                   \* attempt counter of callGemini_forApplicationDetails
  responses,                 \* history: the responses the oracle gave, one per attempt
  geminiResult,              \* what callGemini_forApplicationDetails returned
  extraction                 \* companyName, jobTitle, applicationStatus after the dispatch

pipelineVars == <<sheet, mail, toProcessLbl, processedLbl, pc, existingDataCache,
          processedEmailIds, messagesToSort, i, threadProcessingOutcomes,
          preloadedIds, folded, foldedThisRun, runWrites, lastOp, observed, notDone,
          scenarioStep, runB, sweep>>
oracleVars == <<email, opc, attempt, responses, geminiResult, extraction>>
jobVars == <<leads, projectTriggers, lastTriggerCall>>
vars == <<pipelineVars, jobVars, oracleVars>>

NoOp == [kind |-> "none", msg |-> 0, row |-> 0, company |-> "", title |-> "",
         status |-> "", before |-> <<>>, again |-> FALSE]

\* ---------------------------------------------------------- cache keys
CompanyKey(c) == <<"", toLowerCase(c), 0>>
PlaceholderKey(m) == <<"_manual_review_placeholder_", "", m>>
\* companyCacheKey
companyCacheKey(companyName, msgId) ==
  IF companyName # MANUAL_REVIEW_NEEDED THEN CompanyKey(companyName) ELSE PlaceholderKey(msgId)

\* ------------------------------------------------------------- preload
RECURSIVE PreloadCache(_, _, _)
PreloadCache(rows, k, cache) ==
  IF k > Len(rows) THEN cache
  ELSE LET rD == rows[k]
           cL == toLowerCase(rD.company)
           entry == [row |-> k + 1, emailId |-> rD.emailId, company |-> rD.company,
                     title |-> rD.title, status |-> rD.status, peakStatus |-> rD.peak]
           key == CompanyKey(rD.company)
       IN IF cL # "" /\ cL # toLowerCase(MANUAL_REVIEW_NEEDED) /\ cL # "n/a"
          THEN PreloadCache(rows, k + 1,
                 IF key \in DOMAIN cache
                 THEN [cache EXCEPT ![key] = Append(@, entry)]
                 ELSE [kk \in DOMAIN cache \cup {key} |->
                         IF kk = key THEN <<entry>> ELSE cache[kk]])
          ELSE PreloadCache(rows, k + 1, cache)

PreloadIds(rows) == {rows[k].emailId : k \in {j \in 1..Len(rows) : rows[j].emailId # 0}}

EmptyCache == [kk \in {} |-> <<>>]

\* ------------------------------------------------------ fetch and sort
\* threads returned by procLbl.getThreads(0, THREAD_PROCESSING_LIMIT)
RECURSIVE TakeThreads(_, _)
TakeThreads(ts, n) ==
  IF ts = {} \/ n = 0 THEN {}
  ELSE LET t == CHOOSE x \in ts : \A y \in ts : x <= y
       IN {t} \cup TakeThreads(ts \ {t}, n - 1)

threadsToProcess(lbl) == TakeThreads(lbl, THREAD_PROCESSING_LIMIT)

\* mutant: the idempotence filter is skipped
FilterNewNoCheck(ms, ids) == ms

\* messages of the fetched threads that pass the idempotence filter
FilterNew(ms, ids) == {m \in ms : m \notin ids}

\* mutant: the messages stay in the order of the fetch, thread by thread
RECURSIVE FetchOrder(_)
FetchOrder(ms) ==
  IF ms = {} THEN <<>>
  ELSE LET m == CHOOSE x \in ms : \A y \in ms :
                  \/ ThreadOf(x) < ThreadOf(y)
                  \/ (ThreadOf(x) = ThreadOf(y) /\ x <= y)
       IN <<m>> \o FetchOrder(ms \ {m})

\* messagesToSort.sort by date ascending
RECURSIVE SortByDate(_)
SortByDate(ms) ==
  IF ms = {} THEN <<>>
  ELSE LET m == CHOOSE x \in ms : \A y \in ms : DateOf(x) <= DateOf(y)
       IN <<m>> \o SortByDate(ms \ {m})


\* ------------------------------------------------------- reconciliation
NoEntry == [row |-> -1, emailId |-> 0, company |-> "", title |-> "",
            status |-> "", peakStatus |-> ""]

\* potentialMatches.find(e => e.title && e.title.toLowerCase() === jobTitle.toLowerCase())
findByTitle(potentialMatches, jobTitle) ==
  LET hits == {k \in 1..Len(potentialMatches) :
                 /\ potentialMatches[k].title # ""
                 /\ toLowerCase(potentialMatches[k].title) = toLowerCase(jobTitle)}
  IN IF hits = {} THEN NoEntry
     ELSE potentialMatches[CHOOSE k \in hits : \A j \in hits : k <= j]

\* potentialMatches.reduce((latest, current) => current.row > latest.row ? current : latest)
latestRow(potentialMatches) ==
  LET k == CHOOSE x \in 1..Len(potentialMatches) :
             \A y \in 1..Len(potentialMatches) :
               \/ potentialMatches[x].row > potentialMatches[y].row
               \/ (potentialMatches[x].row = potentialMatches[y].row /\ x <= y)
  IN potentialMatches[k]

\* the choice among the cached rows of one company: title match first, the
\* row with the highest row number when no title matched
matchIn(potentialMatches, jobTitle) ==
  LET byTitle == IF jobTitle # MANUAL_REVIEW_NEEDED
                 THEN findByTitle(potentialMatches, jobTitle)
                 ELSE NoEntry
  IN IF byTitle.row = -1 /\ Len(potentialMatches) > 0
     THEN latestRow(potentialMatches)
     ELSE byTitle

\* mutant: the sentinel company is looked up like a company, under one
\* placeholder key shared by all messages
existingRowInfoShared(cache, companyName, jobTitle, msgId) ==
  LET shared == {k \in DOMAIN cache : k[1] = PlaceholderKey(msgId)[1]}
      key == IF companyName # MANUAL_REVIEW_NEEDED \/ shared = {}
             THEN companyCacheKey(companyName, msgId)
             ELSE CHOOSE k \in shared : \A j \in shared : k[3] <= j[3]
  IN IF key \in DOMAIN cache THEN matchIn(cache[key], jobTitle) ELSE NoEntry

\* mutant: no row is ever matched
existingRowInfoNone(cache, companyName, jobTitle, msgId) == NoEntry

\* the row lookup: existingRowInfoToUpdate (row = -1 when no row is matched)
existingRowInfoToUpdate(cache, companyName, jobTitle, msgId) ==
  LET key == companyCacheKey(companyName, msgId)
  IN IF companyName # MANUAL_REVIEW_NEEDED /\ key \in DOMAIN cache
     THEN matchIn(cache[key], jobTitle)
     ELSE NoEntry

\* finalStatusToSet = applicationStatus || DEFAULT_STATUS
finalStatusToSet(applicationStatus) ==
  IF applicationStatus = NullStatus THEN DEFAULT_STATUS ELSE applicationStatus

\* mutant: the incoming value is written whatever it is
mergeFieldAlways(incoming, inSheet) == incoming

\* company / title overwrite of the update path
mergeField(incoming, inSheet) ==
  IF incoming # MANUAL_REVIEW_NEEDED
     /\ (inSheet = MANUAL_REVIEW_NEEDED \/ toLowerCase(incoming) # toLowerCase(inSheet))
  THEN incoming ELSE inSheet

\* mutant: a row at Offer Accepted is not protected
statAfterUpdNoGuard(statusCell, final) ==
  LET statInSheet == IF statusCell = "" THEN DEFAULT_STATUS ELSE statusCell
  IN IF \/ RankOr(final, 0) >= RankOr(statInSheet, 0)
        \/ final = REJECTED_STATUS \/ final = OFFER_STATUS
     THEN final ELSE statusCell

\* status overwrite of the update path: the new content of the status cell
statAfterUpd(statusCell, final) ==
  LET statInSheet == IF statusCell = "" THEN DEFAULT_STATUS ELSE statusCell
      curRank == RankOr(statInSheet, 0)
      newRank == RankOr(final, 0)
  IN IF statInSheet # ACCEPTED_STATUS \/ final = ACCEPTED_STATUS
     THEN IF newRank >= curRank \/ final = REJECTED_STATUS \/ final = OFFER_STATUS
          THEN final ELSE statusCell
     ELSE statusCell

\* mutant: the peak follows every non-excluded status, without rank comparison
updPeakValNoRank(cachedPeak, peakCell, statAfter) ==
  LET p0 == IF cachedPeak # "" THEN cachedPeak ELSE peakCell
      peakStat == IF p0 = "" \/ p0 = MANUAL_REVIEW_NEEDED THEN DEFAULT_STATUS ELSE p0
  IN IF statAfter \notin exclPeak THEN statAfter ELSE peakStat

\* mutant: the peak-exclusion set is not consulted
updPeakValNoExcl(cachedPeak, peakCell, statAfter) ==
  LET p0 == IF cachedPeak # "" THEN cachedPeak ELSE peakCell
      peakStat == IF p0 = "" \/ p0 = MANUAL_REVIEW_NEEDED THEN DEFAULT_STATUS ELSE p0
  IN IF RankOr(statAfter, -2) > RankOr(peakStat, -2) THEN statAfter ELSE peakStat

\* peak update of the update path: the new content of the peak cell
updPeakVal(cachedPeak, peakCell, statAfter) ==
  LET p0 == IF cachedPeak # "" THEN cachedPeak ELSE peakCell
      peakStat == IF p0 = "" \/ p0 = MANUAL_REVIEW_NEEDED THEN DEFAULT_STATUS ELSE p0
      curPeakRank == RankOr(peakStat, -2)
      newStatRankPeak == RankOr(statAfter, -2)
  IN IF newStatRankPeak > curPeakRank /\ statAfter \notin exclPeak THEN statAfter
     ELSE IF /\ peakStat = DEFAULT_STATUS
             /\ statAfter \notin exclPeak
             /\ statAfter \in DOMAIN STATUS_HIERARCHY
             /\ STATUS_HIERARCHY[statAfter] > STATUS_HIERARCHY[DEFAULT_STATUS]
          THEN statAfter
          ELSE peakStat

\* mutant: a new row starts with its status as peak
initPeakAsStatus(final) == final

\* mutant: a new row always starts at the default peak
initPeakDefault(final) == DEFAULT_STATUS

\* peak of a newly created row
initPeak(final) == IF final \notin exclPeak THEN final ELSE DEFAULT_STATUS

\* mutant: the date cell always takes the date of the message
mergeDateLatestMessage(cellDate, emailDate) == emailDate

\* date merge of the update path (the cell holds a Date)
mergeDate(cellDate, emailDate) == IF emailDate > cellDate THEN emailDate ELSE cellDate

\* mutant: the update writes an empty notes cell
notesBlanked(cur) == ""

\* rowDataForSheet = [...currentSheetValues]: the notes cell is carried over
notesCarriedOver(cur) == cur.notes

\* rowDataForSheet of the update path
updatedRow(cur, e, companyName, jobTitle, final, msgId) ==
  LET st == statAfterUpd(cur.status, final)
  IN [company |-> mergeField(companyName, cur.company),
      title   |-> mergeField(jobTitle, cur.title),
      status  |-> st,
      peak    |-> updPeakVal(e.peakStatus, cur.peak, st),
      emailId |-> msgId,
      emailDate  |-> mergeDate(cur.emailDate, DateOf(msgId)),
      lastUpdate |-> mergeDate(cur.lastUpdate, DateOf(msgId)),
      notes   |-> notesCarriedOver(cur)]

\* rowDataForSheet of the create path
createdRow(companyName, jobTitle, final, msgId) ==
  [company |-> companyName, title |-> jobTitle, status |-> final,
   peak |-> initPeak(final), emailId |-> msgId,
   emailDate |-> DateOf(msgId), lastUpdate |-> DateOf(msgId), notes |-> ""]

\* existingDataCache after the update of row rN
cacheAfterUpdate(cache, row, rN, companyName, msgId) ==
  LET cKey == IF row.company # MANUAL_REVIEW_NEEDED THEN CompanyKey(row.company)
              ELSE companyCacheKey(companyName, msgId)
  IN IF cKey \in DOMAIN cache
     THEN [cache EXCEPT ![cKey] =
             [k \in 1..Len(@) |->
                IF @[k].row = rN
                THEN [@[k] EXCEPT !.status = row.status, !.peakStatus = row.peak,
                                  !.emailId = msgId, !.title = row.title]
                ELSE @[k]]]
     ELSE cache

\* mutant: the appended row is not inserted into the cache
cacheAfterCreateNoInsert(cache, row, newSRN, companyName, msgId) == cache

\* existingDataCache after the append of row newSRN
cacheAfterCreate(cache, row, newSRN, companyName, msgId) ==
  LET nKey == IF row.company # MANUAL_REVIEW_NEEDED THEN CompanyKey(row.company)
              ELSE companyCacheKey(companyName, msgId)
      entry == [row |-> newSRN, emailId |-> msgId, company |-> row.company,
                title |-> row.title, status |-> row.status, peakStatus |-> row.peak]
  IN IF nKey \in DOMAIN cache
     THEN [cache EXCEPT ![nKey] = Append(@, entry)]
     ELSE [kk \in DOMAIN cache \cup {nKey} |-> IF kk = nKey THEN <<entry>> ELSE cache[kk]]

\* mutant: the update path also appends the row
setValuesAndAppend(rows, rN, row) == Append([rows EXCEPT ![rN - 1] = row], row)

\* dataSheet.getRange(rN, 1, 1, TOTAL_COLUMNS_IN_APP_SHEET).setValues([row])
setValues(rows, rN, row) == [rows EXCEPT ![rN - 1] = row]

\* dataSheet.appendRow(row)
appendRow(rows, row) == Append(rows, row)

\* history of the identities written in the current run
writesAfter(writes, companyName, jobTitle, rN) ==
  IF companyName # MANUAL_REVIEW_NEEDED /\ jobTitle # MANUAL_REVIEW_NEEDED
  THEN writes \cup {<<toLowerCase(companyName), toLowerCase(jobTitle), rN>>}
  ELSE writes

\* mutant: the outcome of the last message of a thread replaces the earlier one
outcomesAfterLastWins(outcomes, threadId, companyName, jobTitle) ==
  LET msgOutcome == IF companyName = MANUAL_REVIEW_NEEDED \/ jobTitle = MANUAL_REVIEW_NEEDED
                    THEN "manual" ELSE "done"
  IN [t \in DOMAIN outcomes \cup {threadId} |->
        IF t = threadId THEN msgOutcome ELSE outcomes[t]]

\* threadProcessingOutcomes after a message whose sheet write succeeded
outcomesAfter(outcomes, threadId, companyName, jobTitle) ==
  LET msgOutcome == IF companyName = MANUAL_REVIEW_NEEDED \/ jobTitle = MANUAL_REVIEW_NEEDED
                    THEN "manual" ELSE "done"
      prev == IF threadId \in DOMAIN outcomes THEN outcomes[threadId] ELSE ""
      val == IF msgOutcome = "manual" THEN "manual"
             ELSE IF prev # "manual" THEN msgOutcome ELSE prev
  IN [t \in DOMAIN outcomes \cup {threadId} |-> IF t = threadId THEN val ELSE outcomes[t]]

\* mutant: the catch block records no outcome
outcomesUntouched(outcomes, threadId) == outcomes

\* threadProcessingOutcomes[threadId] = 'manual'
outcomesManual(outcomes, threadId) ==
  [t \in DOMAIN outcomes \cup {threadId} |-> IF t = threadId THEN "manual" ELSE outcomes[t]]


\* Summary of the statuses reconciled into a row: the highest-ranked status
\* of the hierarchy outside the peak-exclusion set among them (Applied if
\* there is none), and whether one of them is no key of the hierarchy.
NothingObserved == [highest |-> DEFAULT_STATUS, offHierarchy |-> FALSE]
Observe(obs, final) ==
  [highest |-> IF /\ final \in DOMAIN STATUS_HIERARCHY
                  /\ final \notin exclPeak
                  /\ STATUS_HIERARCHY[final] > STATUS_HIERARCHY[obs.highest]
               THEN final ELSE obs.highest,
   offHierarchy |-> obs.offHierarchy \/ final \notin DOMAIN STATUS_HIERARCHY]

\* a company or title that is not the sentinel
Known(x) == x # MANUAL_REVIEW_NEEDED

\* ------------------------------------------------------------ input sets
\* (companyName, jobTitle) pairs an extraction can produce
Extractions == {<<MANUAL_REVIEW_NEEDED, MANUAL_REVIEW_NEEDED>>,
                <<"Acme", MANUAL_REVIEW_NEEDED>>,
                <<"Acme", "Dev">>, <<"ACME", "DEV">>, <<"Acme", "QA">>,
                <<"Beta", "Dev">>}
OneIdentity == {<<"Acme", "Dev">>}
FewStatuses == {DEFAULT_STATUS}
AllStatuses == DOMAIN STATUS_HIERARCHY \cup {BLOCKED_STATUS, NullStatus}

\* The end-to-end scenario: three messages of one application, reconciled in
\* this order into a sheet that starts without rows.
ScenarioIdentity == <<"Acme", "Dev">>
Scenario == <<DEFAULT_STATUS, INTERVIEW_STATUS, REJECTED_STATUS>>
OffScenario == 0 - 1
\* position in the scenario after one more reconciliation
scenarioAfter(step, companyName, jobTitle, final) ==
  IF /\ step \in 0..(Len(Scenario) - 1)
     /\ <<companyName, jobTitle>> = ScenarioIdentity
     /\ final = Scenario[step + 1]
  THEN step + 1 ELSE OffScenario

\* the second run before it starts and after it ends
RunBIdle == [pc |-> "idle", cache |-> EmptyCache, ids |-> {}, preloaded |-> {},
             msgs |-> <<>>, i |-> 1, done |-> {}, outcomes |-> [t \in {} |-> ""]]

\* mutant: the loop drops (id 0) a message whose id the Email ID column holds
\* by now
messageUnlessRecorded(queue, idx) ==
  IF queue[idx] \in PreloadIds(sheet) THEN 0 ELSE queue[idx]

\* the message of iteration idx: the entry of the array collected at the start
\* of the run; the sheet is not read again
messageOfIteration(queue, idx) == queue[idx]

\* ------------------------------------------------------ the stale sweep
\* Config: const WEEKS_THRESHOLD = 7
WEEKS_THRESHOLD == 7
\* Config: FINAL_STATUSES_FOR_STALE_CHECK
WITHDRAWN == "Withdrawn"
FINAL_STATUSES_FOR_STALE_CHECK == {REJECTED_STATUS, ACCEPTED_STATUS, WITHDRAWN}

\* staleThresholdDate: currentDate minus WEEKS_THRESHOLD * 7 days
staleThresholdDate(currentDate) == currentDate - (WEEKS_THRESHOLD * 7)

\* mutant: a row at a final status is swept like any other
isStaleWhateverStatus(row, currentDate) ==
  row.lastUpdate < staleThresholdDate(currentDate)

\* the row passes every `continue` of the loop (its Last Update cell is a Date)
isStale(row, currentDate) ==
  /\ ~(\/ row.status \in FINAL_STATUSES_FOR_STALE_CHECK
        \/ row.status = ""
        \/ row.status = MANUAL_REVIEW_NEEDED)
  /\ ~(row.lastUpdate >= staleThresholdDate(currentDate))

\* sheetValues after the loop: stale rows get status Rejected and the current
\* date as Last Update Date (and as Processed Timestamp, a column the rows of
\* the model do not carry)
sweptValues(sheetValues, currentDate) ==
  [k \in 1..Len(sheetValues) |->
     IF isStale(sheetValues[k], currentDate)
     THEN [sheetValues[k] EXCEPT !.status = REJECTED_STATUS, !.lastUpdate = currentDate]
     ELSE sheetValues[k]]

\* updatedApplicationsCount > 0
anyStale(sheetValues, currentDate) ==
  \E k \in 1..Len(sheetValues) : isStale(sheetValues[k], currentDate)

\* dataRange.setValues(sheetValues): the range read is written whole; rows
\* appended since the read lie outside it
writeRange(rows, values) ==
  [k \in 1..Len(rows) |-> IF k <= Len(values) THEN values[k] ELSE rows[k]]

\* the sweep is not running
SweepIdle == [pc |-> "idle", values |-> <<>>, write |-> FALSE]

\* the days on which the sweep runs: some rows are stale, all rows are stale
SweepDates == {WEEKS_THRESHOLD * 7 + 2, WEEKS_THRESHOLD * 7 + 5}

\* ------------------------------------------------------ the extraction
\* GeminiService.gs: const maxAttempts = 2
maxAttempts == 2

\* return null / return {company, title, status}
NullResult == [null |-> TRUE, company |-> "", title |-> "", status |-> ""]
Result(c, t, s) == [null |-> FALSE, company |-> c, title |-> t, status |-> s]
\* x || MANUAL_REVIEW_NEEDED
OrSentinel(x) == IF x = "" THEN MANUAL_REVIEW_NEEDED ELSE x

\* What one request to the oracle can bring back:
\*   ok          HTTP 200, the candidate text parses and has the three keys
\*               (a key's value may be empty)
\*   badJson     HTTP 200, the candidate text does not parse as JSON
\*   missingKey  HTTP 200, the candidate text parses, a key is undefined
\*   blocked     HTTP 200, no candidate text, promptFeedback.blockReason set
\*   unexpected  HTTP 200, neither candidate text nor blockReason
\*   rateLimit   HTTP 429
\*   httpError   any other HTTP code
\*   exception   UrlFetchApp.fetch throws
\*   badEnvelope HTTP 200, the response body itself does not parse (throws)
Response(k, c, t, s) == [kind |-> k, company |-> c, title |-> t, status |-> s]
OracleStatuses == {NullStatus, MANUAL_REVIEW_NEEDED, UPDATE_OTHER, DEFAULT_STATUS,
                   INTERVIEW_STATUS}
Responses ==
  {Response("ok", c, t, s) : c \in {"", "Beta"}, t \in {"", "QA"}, s \in OracleStatuses}
  \cup {Response(k, "", "", "") : k \in {"badJson", "missingKey", "blocked", "unexpected",
                                          "rateLimit", "httpError", "exception",
                                          "badEnvelope"}}

\* one pass through the body of the retry loop with attempt already
\* incremented to att: either the loop continues or the function returns
attemptOutcome(r, att) ==
  CASE r.kind = "ok" ->
         [retry |-> FALSE,
          result |-> Result(OrSentinel(r.company), OrSentinel(r.title), OrSentinel(r.status))]
    [] r.kind \in {"badJson", "missingKey"} ->
         [retry |-> FALSE,
          result |-> Result(MANUAL_REVIEW_NEEDED, MANUAL_REVIEW_NEEDED, MANUAL_REVIEW_NEEDED)]
    [] r.kind = "blocked" ->
         [retry |-> FALSE,
          result |-> Result(MANUAL_REVIEW_NEEDED, MANUAL_REVIEW_NEEDED, BLOCKED_STATUS)]
    [] r.kind = "unexpected" -> [retry |-> FALSE, result |-> NullResult]
    [] r.kind = "rateLimit" -> [retry |-> att < maxAttempts, result |-> NullResult]
    [] r.kind = "httpError" -> [retry |-> FALSE, result |-> NullResult]
    [] r.kind \in {"exception", "badEnvelope"} ->
         [retry |-> att < maxAttempts, result |-> NullResult]

\* keyword categories a body can contain
KeywordCategories == {"rejection", "offer", "interview", "assessment", "viewed"}

\* the keyword lists of Config.js, by category
KEYWORDS ==
  [c \in KeywordCategories |->
     CASE c = "rejection" ->
            {"unfortunately", "regret to inform", "not moving forward",
             "decided not to proceed", "other candidates", "filled the position",
             "thank you for your time but"}
       [] c = "offer" ->
            {"pleased to offer", "offer of employment", "job offer",
             "formally offer you the position"}
       [] c = "interview" ->
            {"invitation to interview", "schedule an interview", "interview request",
             "like to speak with you", "next steps involve an interview",
             "interview availability"}
       [] c = "assessment" ->
            {"assessment", "coding challenge", "online test", "technical screen",
             "next step is a skill assessment", "take a short test"}
       [] c = "viewed" ->
            {"application was viewed", "your application was viewed by",
             "recruiter viewed your application", "company viewed your application",
             "viewed your profile for the role"}]

\* the categories of which a body containing these phrases holds a keyword
categoriesOf(phrases) == {c \in KeywordCategories : phrases \cap KEYWORDS[c] # {}}

\* mutant: the scan runs in the opposite order
parseBodyLastWins(keywords) ==
  IF "viewed" \in keywords THEN APPLICATION_VIEWED_STATUS
  ELSE IF "assessment" \in keywords THEN ASSESSMENT_STATUS
  ELSE IF "interview" \in keywords THEN INTERVIEW_STATUS
  ELSE IF "offer" \in keywords THEN OFFER_STATUS
  ELSE IF "rejection" \in keywords THEN REJECTED_STATUS
  ELSE DEFAULT_STATUS

\* parseBodyForStatus: ordered keyword scan, the first category present wins
parseBodyForStatus(keywords) ==
  IF "rejection" \in keywords THEN REJECTED_STATUS
  ELSE IF "offer" \in keywords THEN OFFER_STATUS
  ELSE IF "interview" \in keywords THEN INTERVIEW_STATUS
  ELSE IF "assessment" \in keywords THEN ASSESSMENT_STATUS
  ELSE IF "viewed" \in keywords THEN APPLICATION_VIEWED_STATUS
  ELSE DEFAULT_STATUS

\* extractCompanyAndTitle: what the patterns find in the message, the
\* sentinel where no pattern matches
extractCompanyAndTitle(msg) == [company |-> msg.regex[1], title |-> msg.regex[2]]

\* mutant: the oracle status is kept whatever the keyword scan finds
statusKept(applicationStatus, keywordStatus) == applicationStatus

\* post-processing of the oracle status by the keyword scan
statusAfterScan(applicationStatus, keywordStatus) ==
  IF \/ applicationStatus = NullStatus
     \/ applicationStatus = MANUAL_REVIEW_NEEDED
     \/ applicationStatus = UPDATE_OTHER
  THEN IF keywordStatus # NullStatus /\ keywordStatus # DEFAULT_STATUS THEN keywordStatus
       ELSE IF applicationStatus = NullStatus /\ keywordStatus = DEFAULT_STATUS
            THEN DEFAULT_STATUS
            ELSE applicationStatus
  ELSE applicationStatus

\* companyName, jobTitle, applicationStatus when the oracle returned a result
fromOracle(msg, res) ==
  [company |-> OrSentinel(res.company), title |-> OrSentinel(res.title),
   status |-> statusAfterScan(res.status, parseBodyForStatus(msg.keywords)),
   source |-> "oracle"]

\* companyName, jobTitle, applicationStatus of the regex / keyword path
fromFallback(msg, src) ==
  [company |-> extractCompanyAndTitle(msg).company,
   title |-> extractCompanyAndTitle(msg).title,
   status |-> parseBodyForStatus(msg.keywords),
   source |-> src]

NoExtraction == [company |-> MANUAL_REVIEW_NEEDED, title |-> MANUAL_REVIEW_NEEDED,
                 status |-> NullStatus, source |-> "none"]

\* the messages whose extraction is followed: whether the run uses the
\* oracle, whether the plain body is empty, the keyword categories in the
\* body, what the patterns find
Emails ==
  {[useGemini |-> g, bodyEmpty |-> b, keywords |-> k, regex |-> x] :
     g \in BOOLEAN, b \in BOOLEAN, k \in SUBSET KeywordCategories,
     x \in {<<MANUAL_REVIEW_NEEDED, MANUAL_REVIEW_NEEDED>>,
            <<"Acme", MANUAL_REVIEW_NEEDED>>, <<"Acme", "Dev">>}}
NoEmail == [useGemini |-> FALSE, bodyEmpty |-> TRUE, keywords |-> {},
            regex |-> <<MANUAL_REVIEW_NEEDED, MANUAL_REVIEW_NEEDED>>]

\* ------------------------------------------------------- processJobLeads
\* Leads_Main.gs: const LEADS_THREAD_LIMIT = 10; const LEADS_MESSAGE_LIMIT_PER_RUN = 15
LEADS_THREAD_LIMIT == 10
LEADS_MESSAGE_LIMIT_PER_RUN == 15

\* mailboxes of the leads job: the number of messages of each labelled thread
LeadLayouts == {<<16>>, <<15, 1>>, <<14, 3>>, <<2, 0, 1>>}
\* ids the Leads sheet holds when the run starts
LeadPreloaded == {{}, {1}, {1, 2, 3}}
\* messages whose extraction can fail
LeadFlaky == {1, 2}

RECURSIVE messagesBefore(_, _)
messagesBefore(sizes, t) == IF t <= 1 THEN 0 ELSE sizes[t - 1] + messagesBefore(sizes, t - 1)
\* thread.getMessages(): the message ids of thread t, in order
messagesInThread(sizes, t) ==
  [k \in 1..sizes[t] |-> messagesBefore(sizes, t) + k]

\* needsProcessLabel.getThreads(0, LEADS_THREAD_LIMIT)
RECURSIVE leadThreadsToProcess(_, _)
leadThreadsToProcess(labelled, n) ==
  IF n = 0 \/ labelled = {} THEN <<>>
  ELSE LET first == CHOOSE x \in labelled : \A y \in labelled : x <= y
       IN <<first>> \o leadThreadsToProcess(labelled \ {first}, n - 1)

\* the leads job is not part of the behaviour
LeadsOff == [pc |-> "off", sizes |-> <<>>, toProcess |-> {}, processed |-> {},
             ids |-> {}, fetched |-> <<>>, counter |-> 0, t |-> 1, idx |-> 1,
             contained |-> FALSE, allOk |-> TRUE]

\* Thread relabeling logic: the thread leaves "To Process" when its new
\* messages were all handled, or when it held no new message
leadsMayMove(contained, allOk) ==
  contained => allOk

\* ---------------------------------------------------------- triggers
CLOCK == "CLOCK"
ON_EDIT == "ON_EDIT"
\* handler names passed as functionName
HandlerNames == {"processJobApplicationEmails", "markStaleApplicationsAsRejected",
                 "dailyReport"}
TriggerKeys == (HandlerNames \X {CLOCK}) \cup {<<"handleCellEdit", ON_EDIT>>}
NoTriggers == [key \in TriggerKeys |-> 0]
NoTriggerCall == [fn |-> "", handler |-> "", template |-> FALSE, existed |-> FALSE,
                  created |-> FALSE]

\* mutant: the loop over the project's triggers finds nothing
triggerNeverExists(triggers, functionName, eventType) == FALSE

\* the loop over ScriptApp.getProjectTriggers(): handler and event type match
triggerExists(triggers, functionName, eventType) ==
  triggers[<<functionName, eventType>>] > 0

\* the body shared by the four functions: template check, existence check,
\* ScriptApp.newTrigger(...).create(), which can throw
triggersAfter(triggers, functionName, eventType, isTemplate, createThrows) ==
  IF isTemplate \/ triggerExists(triggers, functionName, eventType) \/ createThrows
  THEN triggers
  ELSE [triggers EXCEPT ![<<functionName, eventType>>] = @ + 1]

\* ----------------------------------------------------------------- Init
\* the leads job and the trigger functions are not part of the behaviour
JobsOff ==
  /\ leads = LeadsOff
  /\ projectTriggers = NoTriggers
  /\ lastTriggerCall = NoTriggerCall

\* no extraction is followed
OracleOff ==
  /\ email = NoEmail
  /\ opc = "off"
  /\ attempt = 0
  /\ responses = <<>>
  /\ geminiResult = NullResult
  /\ extraction = NoExtraction

PipelineInit ==
  /\ sheet = <<>>
  /\ mail = {}
  /\ toProcessLbl = {}
  /\ processedLbl = {}
  /\ pc = "idle"
  /\ existingDataCache = EmptyCache
  /\ processedEmailIds = {}
  /\ messagesToSort = <<>>
  /\ i = 1
  /\ threadProcessingOutcomes = [t \in {} |-> ""]
  /\ preloadedIds = {}
  /\ folded = {}
  /\ foldedThisRun = {}
  /\ runWrites = {}
  /\ lastOp = NoOp
  /\ observed = <<>>
  /\ notDone = {}
  /\ scenarioStep = 0
  /\ runB = RunBIdle
  /\ sweep = SweepIdle

Init == PipelineInit /\ JobsOff /\ OracleOff

\* a leads mailbox with labelled threads, before processJobLeads runs
InitLeads ==
  /\ PipelineInit
  /\ OracleOff
  /\ projectTriggers = NoTriggers
  /\ lastTriggerCall = NoTriggerCall
  /\ \E sizes \in LeadLayouts, pre \in LeadPreloaded :
       leads = [LeadsOff EXCEPT !.pc = "idle", !.sizes = sizes,
                                !.toProcess = 1..Len(sizes), !.ids = pre]

\* a mailbox that holds one message more than THREAD_PROCESSING_LIMIT, in
\* threads that carry the "To Process" label; the sheet is empty
CapMailbox == 1..(THREAD_PROCESSING_LIMIT + 1)
InitCap ==
  /\ sheet = <<>>
  /\ mail = CapMailbox
  /\ toProcessLbl = {ThreadOf(m) : m \in CapMailbox}
  /\ processedLbl = {}
  /\ pc = "idle"
  /\ existingDataCache = EmptyCache
  /\ processedEmailIds = {}
  /\ messagesToSort = <<>>
  /\ i = 1
  /\ threadProcessingOutcomes = [t \in {} |-> ""]
  /\ preloadedIds = {}
  /\ folded = {}
  /\ foldedThisRun = {}
  /\ runWrites = {}
  /\ lastOp = NoOp
  /\ observed = <<>>
  /\ notDone = {}
  /\ scenarioStep = 0
  /\ runB = RunBIdle
  /\ sweep = SweepIdle
  /\ JobsOff
  /\ OracleOff

\* a message is about to be extracted, the sheet and the mailbox are empty
InitOracle ==
  /\ PipelineInit
  /\ JobsOff
  /\ email \in {e \in Emails : e.bodyEmpty => e.keywords = {}}
  /\ opc = "start"
  /\ attempt = 0
  /\ responses = <<>>
  /\ geminiResult = NullResult
  /\ extraction = NoExtraction

\* -------------------------------------------------------------- actions
\* A message arrives; the Gmail filter created by initialSetup_LabelsAndSheet
\* adds the "To Process" label to its thread.  The per-message loop reads
\* neither the mailbox nor the labels, so an arrival during the loop is the
\* same as an arrival right before the relabeling.
Arrive(m) ==
  /\ pc \in {"idle", "relabel"}
  /\ m \notin mail
  /\ mail' = mail \cup {m}
  /\ toProcessLbl' = toProcessLbl \cup {ThreadOf(m)}
  /\ UNCHANGED <<sheet, processedLbl, pc, existingDataCache, processedEmailIds,
                 messagesToSort, i, threadProcessingOutcomes, preloadedIds,
                 folded, foldedThisRun, runWrites, lastOp, observed, notDone>>
  /\ UNCHANGED <<scenarioStep, runB, sweep, jobVars, oracleVars>>

\* processJobApplicationEmails up to the start of the per-message loop:
\* preload, fetch, filter, sort.
StartRun ==
  /\ pc = "idle"
  /\ LET ids == PreloadIds(sheet)
         fetched == {m \in mail : ThreadOf(m) \in threadsToProcess(toProcessLbl)}
         sorted == SortByDate(FilterNew(fetched, ids))
     IN /\ existingDataCache' = PreloadCache(sheet, 1, EmptyCache)
        /\ processedEmailIds' = ids
        /\ preloadedIds' = ids
        /\ messagesToSort' = sorted
        /\ pc' = IF Len(sorted) = 0 THEN "dashboard" ELSE "loop"
  /\ i' = 1
  /\ threadProcessingOutcomes' = [t \in {} |-> ""]
  /\ lastOp' = NoOp
  /\ notDone' = {}
  /\ UNCHANGED <<sheet, mail, toProcessLbl, processedLbl, folded, foldedThisRun, runWrites,
                 observed>>
  /\ UNCHANGED <<scenarioStep, runB, sweep, jobVars, oracleVars>>

\* position after one loop iteration
AfterIteration == IF i + 1 > Len(messagesToSort) THEN "relabel" ELSE "loop"

\* One iteration of the per-message loop whose extraction and sheet write
\* succeed: extraction (companyName, jobTitle, applicationStatus), row lookup,
\* update or create, cache maintenance, idempotence set, thread outcome.
ProcessMessage(companyName, jobTitle, applicationStatus) ==
  /\ pc = "loop"
  /\ i <= Len(messagesToSort)
  /\ LET msgId == messageOfIteration(messagesToSort, i)
         threadId == ThreadOf(msgId)
         final == finalStatusToSet(applicationStatus)
         e == existingRowInfoToUpdate(existingDataCache, companyName, jobTitle, msgId)
     IN /\ IF e.row # -1
           THEN LET cur == sheet[e.row - 1]
                    new == updatedRow(cur, e, companyName, jobTitle, final, msgId)
                IN /\ sheet' = setValues(sheet, e.row, new)
                   /\ existingDataCache' =
                        cacheAfterUpdate(existingDataCache, new, e.row, companyName, msgId)
                   /\ runWrites' = writesAfter(runWrites, companyName, jobTitle, e.row)
                   /\ observed' = [observed EXCEPT ![e.row - 1] = Observe(@, final)]
                   /\ lastOp' = [kind |-> "update", msg |-> msgId, row |-> e.row,
                                 company |-> companyName, title |-> jobTitle,
                                 status |-> final, before |-> <<cur>>,
                                 again |-> msgId \in folded]
           ELSE LET new == createdRow(companyName, jobTitle, final, msgId)
                    newSRN == Len(sheet) + 2
                IN /\ sheet' = appendRow(sheet, new)
                   /\ existingDataCache' =
                        cacheAfterCreate(existingDataCache, new, newSRN, companyName, msgId)
                   /\ runWrites' = writesAfter(runWrites, companyName, jobTitle, newSRN)
                   /\ observed' = Append(observed, Observe(NothingObserved, final))
                   /\ lastOp' = [kind |-> "create", msg |-> msgId, row |-> newSRN,
                                 company |-> companyName, title |-> jobTitle,
                                 status |-> final, before |-> <<>>,
                                 again |-> msgId \in folded]
        /\ processedEmailIds' = processedEmailIds \cup {msgId}
        /\ foldedThisRun' = foldedThisRun \cup {msgId}
        /\ threadProcessingOutcomes' =
             outcomesAfter(threadProcessingOutcomes, threadId, companyName, jobTitle)
        /\ notDone' = IF Known(companyName) /\ Known(jobTitle)
                      THEN notDone ELSE notDone \cup {threadId}
  /\ i' = i + 1
  /\ pc' = AfterIteration
  /\ scenarioStep' = scenarioAfter(scenarioStep, companyName, jobTitle,
                                   finalStatusToSet(applicationStatus))
  /\ UNCHANGED <<mail, toProcessLbl, processedLbl, messagesToSort, preloadedIds, folded>>
  /\ UNCHANGED <<runB, sweep, jobVars, oracleVars>>

\* One iteration in which handling the message throws (extraction, row read
\* or row write): caught per message, no row is written.
ProcessMessageThrows ==
  /\ pc = "loop"
  /\ i <= Len(messagesToSort)
  /\ LET msgId == messagesToSort[i]
     IN /\ threadProcessingOutcomes' = outcomesManual(threadProcessingOutcomes, ThreadOf(msgId))
        /\ lastOp' = [NoOp EXCEPT !.kind = "error", !.msg = msgId]
        /\ notDone' = notDone \cup {ThreadOf(msgId)}
  /\ i' = i + 1
  /\ pc' = AfterIteration
  /\ UNCHANGED <<sheet, mail, toProcessLbl, processedLbl, existingDataCache,
                 processedEmailIds, messagesToSort, preloadedIds, folded, foldedThisRun,
                 runWrites, observed>>
  /\ UNCHANGED <<scenarioStep, runB, sweep, jobVars, oracleVars>>

\* One iteration of the create path in which appendRow succeeds and the
\* getLastRow call that follows it throws: the row is in the sheet, and the
\* catch of the iteration runs before sheetWriteOpSuccessThisMessage is set,
\* the cache is extended or the id is added to processedEmailIds.
AppendThenThrows(companyName, jobTitle, applicationStatus) ==
  /\ pc = "loop"
  /\ i <= Len(messagesToSort)
  /\ LET msgId == messageOfIteration(messagesToSort, i)
         final == finalStatusToSet(applicationStatus)
         e == existingRowInfoToUpdate(existingDataCache, companyName, jobTitle, msgId)
         new == createdRow(companyName, jobTitle, final, msgId)
     IN /\ e.row = -1
        /\ sheet' = appendRow(sheet, new)
        /\ observed' = Append(observed, Observe(NothingObserved, final))
        /\ lastOp' = [kind |-> "create", msg |-> msgId, row |-> Len(sheet) + 2,
                      company |-> companyName, title |-> jobTitle,
                      status |-> final, before |-> <<>>,
                      again |-> msgId \in folded]
        /\ threadProcessingOutcomes' =
             outcomesManual(threadProcessingOutcomes, ThreadOf(msgId))
        /\ notDone' = notDone \cup {ThreadOf(msgId)}
        /\ scenarioStep' = scenarioAfter(scenarioStep, companyName, jobTitle, final)
  /\ i' = i + 1
  /\ pc' = AfterIteration
  /\ UNCHANGED <<mail, toProcessLbl, processedLbl, existingDataCache, processedEmailIds,
                 messagesToSort, preloadedIds, folded, foldedThisRun, runWrites>>
  /\ UNCHANGED <<runB, sweep, jobVars, oracleVars>>

\* elapsedTime > 320: the loop stops before the next message
BudgetExceeded ==
  /\ pc = "loop"
  /\ i <= Len(messagesToSort)
  /\ pc' = "relabel"
  /\ lastOp' = NoOp
  /\ UNCHANGED <<sheet, mail, toProcessLbl, processedLbl, existingDataCache,
                 processedEmailIds, messagesToSort, i, threadProcessingOutcomes,
                 preloadedIds, folded, foldedThisRun, runWrites, observed, notDone>>
  /\ UNCHANGED <<scenarioStep, runB, sweep, jobVars, oracleVars>>

\* applyFinalLabels: a thread whose outcome is done moves from "To Process"
\* to "Processed"; a thread whose outcome is manual stays in "To Process".
applyFinalLabels(outcomes, lbl) ==
  lbl \ {t \in DOMAIN outcomes : outcomes[t] = "done"}

ApplyFinalLabels ==
  /\ pc = "relabel"
  /\ toProcessLbl' = applyFinalLabels(threadProcessingOutcomes, toProcessLbl)
  /\ processedLbl' = processedLbl \cup
                       {t \in DOMAIN threadProcessingOutcomes : threadProcessingOutcomes[t] = "done"}
  /\ pc' = "dashboard"
  /\ lastOp' = NoOp
  /\ UNCHANGED <<sheet, mail, existingDataCache, processedEmailIds, messagesToSort, i,
                 threadProcessingOutcomes, preloadedIds, folded, foldedThisRun, runWrites,
                 observed, notDone>>
  /\ UNCHANGED <<scenarioStep, runB, sweep, jobVars, oracleVars>>

\* final updateDashboardMetrics call; the run ends and its locals are gone
UpdateDashboard ==
  /\ pc = "dashboard"
  /\ pc' = "idle"
  /\ existingDataCache' = EmptyCache
  /\ processedEmailIds' = {}
  /\ messagesToSort' = <<>>
  /\ i' = 1
  /\ threadProcessingOutcomes' = [t \in {} |-> ""]
  /\ preloadedIds' = {}
  /\ folded' = folded \cup foldedThisRun
  /\ foldedThisRun' = {}
  /\ runWrites' = {}
  /\ lastOp' = NoOp
  /\ notDone' = {}
  /\ UNCHANGED <<sheet, mail, toProcessLbl, processedLbl, observed>>
  /\ UNCHANGED <<scenarioStep, runB, sweep, jobVars, oracleVars>>

\* The second run starts while the first is in its loop: nothing keeps a
\* trigger or a menu call from starting processJobApplicationEmails again.
\* It preloads the sheet as it is now and collects its own messages.
OtherRunStart ==
  /\ pc = "loop"
  /\ runB.pc = "idle"
  /\ LET ids == PreloadIds(sheet)
         fetched == {m \in mail : ThreadOf(m) \in threadsToProcess(toProcessLbl)}
         sorted == SortByDate(FilterNew(fetched, ids))
     IN runB' = [RunBIdle EXCEPT !.pc = IF Len(sorted) = 0 THEN "end" ELSE "loop",
                                 !.cache = PreloadCache(sheet, 1, EmptyCache),
                                 !.ids = ids, !.preloaded = ids, !.msgs = sorted]
  /\ UNCHANGED <<sheet, mail, toProcessLbl, processedLbl, pc, existingDataCache,
                 processedEmailIds, messagesToSort, i, threadProcessingOutcomes,
                 preloadedIds, folded, foldedThisRun, runWrites, lastOp, observed,
                 notDone, scenarioStep>>
  /\ UNCHANGED <<sweep, jobVars, oracleVars>>

\* One iteration of the loop of the second run, on its own cache and queue.
OtherRunProcess(companyName, jobTitle, applicationStatus) ==
  /\ runB.pc = "loop"
  /\ runB.i <= Len(runB.msgs)
  /\ LET msgId == messageOfIteration(runB.msgs, runB.i)
         final == finalStatusToSet(applicationStatus)
         e == existingRowInfoToUpdate(runB.cache, companyName, jobTitle, msgId)
         found == e.row # -1
         srn == IF found THEN e.row ELSE Len(sheet) + 2
         new == IF found
                THEN updatedRow(sheet[e.row - 1], e, companyName, jobTitle, final, msgId)
                ELSE createdRow(companyName, jobTitle, final, msgId)
     IN /\ sheet' = IF found THEN setValues(sheet, e.row, new) ELSE appendRow(sheet, new)
        /\ observed' = IF found
                       THEN [observed EXCEPT ![e.row - 1] = Observe(@, final)]
                       ELSE Append(observed, Observe(NothingObserved, final))
        /\ runB' = [runB EXCEPT
                      !.cache = IF found
                                THEN cacheAfterUpdate(@, new, srn, companyName, msgId)
                                ELSE cacheAfterCreate(@, new, srn, companyName, msgId),
                      !.ids = @ \cup {msgId},
                      !.done = @ \cup {msgId},
                      !.outcomes = outcomesAfter(@, ThreadOf(msgId), companyName, jobTitle),
                      !.i = @ + 1,
                      !.pc = IF runB.i + 1 > Len(runB.msgs) THEN "end" ELSE "loop"]
        /\ scenarioStep' = scenarioAfter(scenarioStep, companyName, jobTitle, final)
  /\ lastOp' = NoOp
  /\ UNCHANGED <<mail, toProcessLbl, processedLbl, pc, existingDataCache,
                 processedEmailIds, messagesToSort, i, threadProcessingOutcomes,
                 preloadedIds, folded, foldedThisRun, runWrites, notDone>>
  /\ UNCHANGED <<sweep, jobVars, oracleVars>>

\* The second run relabels its threads, refreshes the dashboard and ends.
OtherRunEnds ==
  /\ runB.pc = "end"
  /\ toProcessLbl' = applyFinalLabels(runB.outcomes, toProcessLbl)
  /\ processedLbl' = processedLbl \cup
                       {t \in DOMAIN runB.outcomes : runB.outcomes[t] = "done"}
  /\ folded' = folded \cup runB.done
  /\ runB' = RunBIdle
  /\ UNCHANGED <<sheet, mail, pc, existingDataCache, processedEmailIds, messagesToSort,
                 i, threadProcessingOutcomes, preloadedIds, foldedThisRun, runWrites,
                 lastOp, observed, notDone, scenarioStep>>
  /\ UNCHANGED <<sweep, jobVars, oracleVars>>

\* A run stops in its preamble: the spreadsheet or the data tab cannot be
\* reached, a label is missing, the preload or the thread fetch throws. Nothing
\* has been written yet.
StartRunAborts ==
  /\ pc = "idle"
  /\ pc' = "aborted"
  /\ UNCHANGED <<sheet, mail, toProcessLbl, processedLbl, existingDataCache,
                 processedEmailIds, messagesToSort, i, threadProcessingOutcomes,
                 preloadedIds, folded, foldedThisRun, runWrites, lastOp, observed,
                 notDone>>
  /\ UNCHANGED <<scenarioStep, runB, sweep, jobVars, oracleVars>>

\* the `return` of an aborted run
ReturnEarly ==
  /\ pc = "aborted"
  /\ pc' = "idle"
  /\ UNCHANGED <<sheet, mail, toProcessLbl, processedLbl, existingDataCache,
                 processedEmailIds, messagesToSort, i, threadProcessingOutcomes,
                 preloadedIds, folded, foldedThisRun, runWrites, lastOp, observed,
                 notDone>>
  /\ UNCHANGED <<scenarioStep, runB, sweep, jobVars, oracleVars>>

\* The user writes a note into the notes cell of row k + 1 of the sheet.
UserEditsNotes(k) ==
  /\ pc \in {"idle", "loop"}
  /\ k \in 1..Len(sheet)
  /\ sheet[k].notes = ""
  /\ sheet' = [sheet EXCEPT ![k].notes = "call back on Monday"]
  /\ lastOp' = NoOp
  /\ UNCHANGED <<mail, toProcessLbl, processedLbl, pc, existingDataCache,
                 processedEmailIds, messagesToSort, i, threadProcessingOutcomes,
                 preloadedIds, folded, foldedThisRun, runWrites, observed, notDone>>
  /\ UNCHANGED <<scenarioStep, runB, sweep, jobVars, oracleVars>>

\* markStaleApplicationsAsRejected, not overlapped by a run of the processor.
markStaleApplicationsAsRejected(currentDate) ==
  /\ pc = "idle"
  /\ sweep.pc = "idle"
  /\ Len(sheet) > 0
  /\ sheet' = IF anyStale(sheet, currentDate)
              THEN writeRange(sheet, sweptValues(sheet, currentDate))
              ELSE sheet
  /\ lastOp' = [NoOp EXCEPT !.kind = "sweep", !.before = sheet]
  /\ UNCHANGED <<mail, toProcessLbl, processedLbl, pc, existingDataCache,
                 processedEmailIds, messagesToSort, i, threadProcessingOutcomes,
                 preloadedIds, folded, foldedThisRun, runWrites, observed, notDone>>
  /\ UNCHANGED <<scenarioStep, runB, sweep, jobVars, oracleVars>>

\* The user sets the status cell of row k + 1 by hand.
UserSetsStatus(k, st) ==
  /\ pc = "idle"
  /\ sweep.pc = "idle"
  /\ k \in 1..Len(sheet)
  /\ sheet[k].status # st
  /\ sheet' = [sheet EXCEPT ![k].status = st]
  /\ lastOp' = NoOp
  /\ UNCHANGED <<mail, toProcessLbl, processedLbl, pc, existingDataCache,
                 processedEmailIds, messagesToSort, i, threadProcessingOutcomes,
                 preloadedIds, folded, foldedThisRun, runWrites, observed, notDone>>
  /\ UNCHANGED <<scenarioStep, runB, sweep, jobVars, oracleVars>>

\* markStaleApplicationsAsRejected up to the end of its loop: the range is
\* read (getValues) and the stale rows are changed in the array.
SweepRead(currentDate) ==
  /\ sweep.pc = "idle"
  /\ Len(sheet) > 0
  /\ sweep' = [pc |-> "read", values |-> sweptValues(sheet, currentDate),
               write |-> anyStale(sheet, currentDate)]
  /\ UNCHANGED <<sheet, mail, toProcessLbl, processedLbl, pc, existingDataCache,
                 processedEmailIds, messagesToSort, i, threadProcessingOutcomes,
                 preloadedIds, folded, foldedThisRun, runWrites, lastOp, observed,
                 notDone, scenarioStep, runB>>
  /\ UNCHANGED <<jobVars, oracleVars>>

\* the rest of markStaleApplicationsAsRejected: the array is written back when
\* a row was changed in it
SweepWrite ==
  /\ sweep.pc = "read"
  /\ sheet' = IF sweep.write THEN writeRange(sheet, sweep.values) ELSE sheet
  /\ sweep' = SweepIdle
  /\ lastOp' = [NoOp EXCEPT !.kind = "sweep", !.before = sheet]
  /\ UNCHANGED <<mail, toProcessLbl, processedLbl, pc, existingDataCache,
                 processedEmailIds, messagesToSort, i, threadProcessingOutcomes,
                 preloadedIds, folded, foldedThisRun, runWrites, observed, notDone,
                 scenarioStep, runB>>
  /\ UNCHANGED <<jobVars, oracleVars>>

\* processJobLeads up to its loop over the threads: the processed ids are
\* in leads.ids, the threads are fetched.
LeadsStart ==
  /\ leads.pc = "idle"
  /\ leads' = [leads EXCEPT
                 !.pc = "thread",
                 !.fetched = leadThreadsToProcess(leads.toProcess, LEADS_THREAD_LIMIT),
                 !.counter = 0, !.t = 1]
  /\ UNCHANGED <<pipelineVars, projectTriggers, lastTriggerCall, oracleVars>>

\* top of the loop over the threads: the message limit ends the run, the
\* next thread is opened otherwise
LeadsNextThread ==
  /\ leads.pc = "thread"
  /\ leads' = IF leads.t > Len(leads.fetched)
                  \/ leads.counter >= LEADS_MESSAGE_LIMIT_PER_RUN
               THEN [leads EXCEPT !.pc = "done"]
               ELSE [leads EXCEPT !.pc = "msg", !.idx = 1,
                                  !.contained = FALSE, !.allOk = TRUE]
  /\ UNCHANGED <<pipelineVars, projectTriggers, lastTriggerCall, oracleVars>>

\* scriptRunTimeSeconds > 320 at the top of the loop over the threads
LeadsTimeUp ==
  /\ leads.pc = "thread"
  /\ leads.t <= Len(leads.fetched)
  /\ leads' = [leads EXCEPT !.pc = "done"]
  /\ UNCHANGED <<pipelineVars, projectTriggers, lastTriggerCall, oracleVars>>

\* One iteration of the loop over the messages of the thread: a message in
\* the id set is passed over; a new message counts, and is added to the id
\* set when it was handled without error.
LeadsMessage(handled) ==
  /\ leads.pc = "msg"
  /\ LET thread == leads.fetched[leads.t]
         messages == messagesInThread(leads.sizes, thread)
     IN /\ leads.idx <= Len(messages)
        /\ leads.counter < LEADS_MESSAGE_LIMIT_PER_RUN
        /\ LET msgId == messages[leads.idx]
           IN /\ handled \/ msgId \in LeadFlaky
              /\ leads' =
                   IF msgId \in leads.ids
                   THEN [leads EXCEPT !.idx = @ + 1]
                   ELSE [leads EXCEPT
                           !.idx = @ + 1,
                           !.contained = TRUE,
                           !.counter = @ + 1,
                           !.ids = IF handled THEN @ \cup {msgId} ELSE @,
                           !.allOk = @ /\ handled]
  /\ UNCHANGED <<pipelineVars, projectTriggers, lastTriggerCall, oracleVars>>

\* the limit check at the top of the loop over the messages: break
LeadsLimitBreak ==
  /\ leads.pc = "msg"
  /\ leads.idx <= leads.sizes[leads.fetched[leads.t]]
  /\ leads.counter >= LEADS_MESSAGE_LIMIT_PER_RUN
  /\ leads' = [leads EXCEPT !.pc = "relabel"]
  /\ UNCHANGED <<pipelineVars, projectTriggers, lastTriggerCall, oracleVars>>

\* Thread relabeling logic, after the loop over the messages ended or broke
LeadsRelabel ==
  /\ LET thread == leads.fetched[leads.t]
         size == leads.sizes[thread]
     IN /\ \/ leads.pc = "relabel"
           \/ leads.pc = "msg" /\ leads.idx > size
        /\ leads' =
             IF leadsMayMove(leads.contained, leads.allOk)
             THEN [leads EXCEPT !.pc = "thread", !.t = @ + 1,
                                !.toProcess = @ \ {thread},
                                !.processed = IF size > 0 THEN @ \cup {thread} ELSE @]
             ELSE [leads EXCEPT !.pc = "thread", !.t = @ + 1]
  /\ UNCHANGED <<pipelineVars, projectTriggers, lastTriggerCall, oracleVars>>

\* createTimeDrivenTrigger(functionName, hours)
createTimeDrivenTrigger(functionName, isTemplate, createThrows) ==
  /\ projectTriggers' =
       triggersAfter(projectTriggers, functionName, CLOCK, isTemplate, createThrows)
  /\ lastTriggerCall' = [fn |-> "createTimeDrivenTrigger", handler |-> functionName,
                          template |-> isTemplate,
                          existed |-> projectTriggers[<<functionName, CLOCK>>] > 0,
                          created |-> projectTriggers' # projectTriggers]
  /\ UNCHANGED <<pipelineVars, leads, oracleVars>>

\* createOrVerifyStaleRejectTrigger(functionName, hour)
createOrVerifyStaleRejectTrigger(functionName, isTemplate, createThrows) ==
  /\ projectTriggers' =
       triggersAfter(projectTriggers, functionName, CLOCK, isTemplate, createThrows)
  /\ lastTriggerCall' = [fn |-> "createOrVerifyStaleRejectTrigger",
                          handler |-> functionName, template |-> isTemplate,
                          existed |-> projectTriggers[<<functionName, CLOCK>>] > 0,
                          created |-> projectTriggers' # projectTriggers]
  /\ UNCHANGED <<pipelineVars, leads, oracleVars>>

\* createDailyReportTrigger()
createDailyReportTrigger(isTemplate, createThrows) ==
  /\ projectTriggers' =
       triggersAfter(projectTriggers, "dailyReport", CLOCK, isTemplate, createThrows)
  /\ lastTriggerCall' = [fn |-> "createDailyReportTrigger", handler |-> "dailyReport",
                          template |-> isTemplate,
                          existed |-> projectTriggers[<<"dailyReport", CLOCK>>] > 0,
                          created |-> projectTriggers' # projectTriggers]
  /\ UNCHANGED <<pipelineVars, leads, oracleVars>>

\* createOnEditTrigger()
createOnEditTrigger(isTemplate, createThrows) ==
  /\ projectTriggers' =
       triggersAfter(projectTriggers, "handleCellEdit", ON_EDIT, isTemplate, createThrows)
  /\ lastTriggerCall' = [fn |-> "createOnEditTrigger", handler |-> "handleCellEdit",
                          template |-> isTemplate,
                          existed |-> projectTriggers[<<"handleCellEdit", ON_EDIT>>] > 0,
                          created |-> projectTriggers' # projectTriggers]
  /\ UNCHANGED <<pipelineVars, leads, oracleVars>>

\* ------------------------------------------------ extraction, step by step
\* useGemini is off or the plain body is empty: the regex / keyword path
RegexPath ==
  /\ opc = "start"
  /\ ~ (email.useGemini /\ ~ email.bodyEmpty)
  /\ extraction' = fromFallback(email, "regex")
  /\ opc' = "extracted"
  /\ UNCHANGED <<email, attempt, responses, geminiResult>>
  /\ UNCHANGED <<pipelineVars, jobVars>>

\* callGemini_forApplicationDetails is entered: attempt = 0
CallGemini ==
  /\ opc = "start"
  /\ email.useGemini /\ ~ email.bodyEmpty
  /\ attempt' = 0
  /\ opc' = "calling"
  /\ UNCHANGED <<email, responses, geminiResult, extraction>>
  /\ UNCHANGED <<pipelineVars, jobVars>>

\* one iteration of while (attempt < maxAttempts): the request is sent and
\* brings back r
Fetch(r) ==
  /\ opc = "calling"
  /\ attempt < maxAttempts
  /\ attempt' = attempt + 1
  /\ responses' = Append(responses, r)
  /\ LET out == attemptOutcome(r, attempt + 1)
     IN IF out.retry
        THEN opc' = "calling" /\ UNCHANGED geminiResult
        ELSE opc' = "returned" /\ geminiResult' = out.result
  /\ UNCHANGED <<email, extraction>>
  /\ UNCHANGED <<pipelineVars, jobVars>>

\* the caller's dispatch on geminiResult
UseResult ==
  /\ opc = "returned"
  /\ extraction' = IF ~ geminiResult.null
                   THEN fromOracle(email, geminiResult)
                   ELSE fromFallback(email, "fallback")
  /\ opc' = "extracted"
  /\ UNCHANGED <<email, attempt, responses, geminiResult>>
  /\ UNCHANGED <<pipelineVars, jobVars>>

\* ------------------------------------------------------- specifications
NextOver(extractions, statuses) ==
  \/ \E m \in MsgIds : Arrive(m)
  \/ StartRun
  \/ \E x \in extractions, s \in statuses : ProcessMessage(x[1], x[2], s)
  \/ ProcessMessageThrows
  \/ BudgetExceeded
  \/ ApplyFinalLabels
  \/ UpdateDashboard

\* identities vary, one status
Next == NextOver(Extractions, FewStatuses)
Spec == Init /\ [][Next]_vars

\* one identity, every status the extraction can deliver
NextStatus == NextOver(OneIdentity, AllStatuses)
SpecStatus == Init /\ [][NextStatus]_vars

\* repeated, non-overlapping runs: the time-driven trigger starts a run again
\* and again, a started run relabels and ends, and a queued message is not
\* cut off or failed in every run
NextLive == NextOver(OneIdentity, FewStatuses)
SpecLive ==
  /\ Init /\ [][NextLive]_vars
  /\ WF_vars(StartRun)
  /\ SF_vars(\E x \in OneIdentity, s \in FewStatuses : ProcessMessage(x[1], x[2], s))
  /\ WF_vars(ApplyFinalLabels)
  /\ WF_vars(UpdateDashboard)

\* the pipeline on a sheet the user annotates
NextNotes ==
  \/ NextOver(OneIdentity, FewStatuses)
  \/ \E k \in 1..MaxMsgs : UserEditsNotes(k)
SpecNotes == Init /\ [][NextNotes]_vars

\* two overlapping runs on the same sheet and mailbox
NextOverlap ==
  \/ NextOver(OneIdentity, FewStatuses)
  \/ OtherRunStart
  \/ \E x \in OneIdentity, s \in FewStatuses : OtherRunProcess(x[1], x[2], s)
  \/ OtherRunEnds
SpecOverlap == Init /\ [][NextOverlap]_vars

\* runs on a full mailbox to which nothing is added
NextCap ==
  \/ StartRun
  \/ \E x \in OneIdentity, s \in FewStatuses : ProcessMessage(x[1], x[2], s)
  \/ BudgetExceeded
  \/ ApplyFinalLabels
  \/ UpdateDashboard
SpecCap == InitCap /\ [][NextCap]_vars

\* the pipeline with a sheet service that can fail right after an append
NextWriteThrows ==
  \/ NextOver(OneIdentity, FewStatuses)
  \/ \E x \in OneIdentity, s \in FewStatuses : AppendThenThrows(x[1], x[2], s)
SpecWriteThrows == Init /\ [][NextWriteThrows]_vars

\* the processor, the sweep between its runs, and a user who sets statuses
SweepIdentities == {<<"Acme", "Dev">>, <<"Beta", "Dev">>}
SweepStatuses == {DEFAULT_STATUS, ACCEPTED_STATUS}
UserStatuses == {"", WITHDRAWN}
NextSweep ==
  \/ NextOver(SweepIdentities, SweepStatuses)
  \/ \E d \in SweepDates : markStaleApplicationsAsRejected(d)
  \/ \E k \in 1..MaxMsgs, st \in UserStatuses : UserSetsStatus(k, st)
SpecSweep == Init /\ [][NextSweep]_vars

\* the processor and the sweep as two jobs that interleave
RaceStatuses == {DEFAULT_STATUS, INTERVIEW_STATUS}
NextSweepRace ==
  \/ NextOver(OneIdentity, RaceStatuses)
  \/ \E d \in SweepDates : SweepRead(d)
  \/ SweepWrite
SpecSweepRace == Init /\ [][NextSweepRace]_vars

\* one run of processJobLeads
NextLeads ==
  \/ LeadsStart
  \/ LeadsNextThread
  \/ LeadsTimeUp
  \/ \E handled \in BOOLEAN : LeadsMessage(handled)
  \/ LeadsLimitBreak
  \/ LeadsRelabel
SpecLeads == InitLeads /\ [][NextLeads]_vars

\* calls of the trigger-creating functions, one after the other
NextTriggers ==
  \/ \E f \in HandlerNames, tpl, thr \in BOOLEAN : createTimeDrivenTrigger(f, tpl, thr)
  \/ \E f \in HandlerNames, tpl, thr \in BOOLEAN :
       createOrVerifyStaleRejectTrigger(f, tpl, thr)
  \/ \E tpl, thr \in BOOLEAN : createDailyReportTrigger(tpl, thr)
  \/ \E tpl, thr \in BOOLEAN : createOnEditTrigger(tpl, thr)
SpecTriggers == Init /\ [][NextTriggers]_vars

\* the pipeline with runs whose preamble fails
NextFailures ==
  \/ NextOver(OneIdentity, FewStatuses)
  \/ StartRunAborts
  \/ ReturnEarly
SpecFailures == Init /\ [][NextFailures]_vars

\* the extraction of one message: oracle call and dispatch
NextOracle ==
  \/ RegexPath
  \/ CallGemini
  \/ \E r \in Responses : Fetch(r)
  \/ UseResult
SpecOracle == InitOracle /\ [][NextOracle]_vars

\* ------------------------------------------------------------ properties
\* the last step was a per-message step that wrote the sheet
Wrote == lastOp.kind \in {"create", "update"}
Lifecycle == {DEFAULT_STATUS, APPLICATION_VIEWED_STATUS, ASSESSMENT_STATUS,
              INTERVIEW_STATUS, OFFER_STATUS}
\* rank of a status cell / of a peak cell (unknown strings get the code's default)
StatusRank(st) == RankOr(IF st = "" THEN DEFAULT_STATUS ELSE st, 0)
PeakRank(pk) == RankOr(pk, -2)
\* C1: during a run no message whose id was in the idempotence set preloaded
\* at run start is queued, extracted or reconciled: it is neither in
\* messagesToSort nor the message of any per-message step.
C1_PreloadedNeverProcessed ==
  pc # "idle" =>
    /\ \A k \in 1..Len(messagesToSort) : messagesToSort[k] \notin preloadedIds
    /\ lastOp.msg # 0 => lastOp.msg \notin preloadedIds

\* C1 witness: a run wrote a row for a message while another message of a
\* fetched thread was in the preloaded set.
C1_Witness ==
  /\ Wrote
  /\ \E m \in mail : /\ m \in preloadedIds
                     /\ ThreadOf(m) \in toProcessLbl
                     /\ ThreadOf(m) = ThreadOf(lastOp.msg)

\* C2: a message that was written and marked processed in an earlier run is
\* never the message of a per-message step of a later run.
C2_NeverActsAgain == lastOp.again = FALSE

\* C3: an extraction with known company and known title never updates a row
\* of that company whose title is a different known title.
C3_NoIdentityMerge ==
  (lastOp.kind = "update" /\ Known(lastOp.company) /\ Known(lastOp.title)) =>
     ~ (/\ Known(lastOp.before[1].title)
        /\ toLowerCase(lastOp.before[1].company) = toLowerCase(lastOp.company)
        /\ toLowerCase(lastOp.before[1].title) # toLowerCase(lastOp.title))

\* C4: an update never lowers the rank of the row's peakStatus, and leaves
\* peakStatus unchanged when the new status is in the peak-exclusion set.
C4_PeakMonotone ==
  lastOp.kind = "update" =>
    /\ PeakRank(sheet[lastOp.row - 1].peak) >= PeakRank(lastOp.before[1].peak)
    /\ lastOp.status \in exclPeak => sheet[lastOp.row - 1].peak = lastOp.before[1].peak

\* C4 witness: an update raised the peak, and the row was updated before.
C4_Witness ==
  /\ lastOp.kind = "update"
  /\ PeakRank(sheet[lastOp.row - 1].peak) > PeakRank(lastOp.before[1].peak)
  /\ lastOp.before[1].peak # DEFAULT_STATUS

\* C5: every row whose status is a non-terminal lifecycle status has
\* rank(peakStatus) >= rank(status).
C5_PeakAtLeastStatus ==
  \A k \in 1..Len(sheet) :
    sheet[k].status \in Lifecycle =>
      /\ sheet[k].peak \in DOMAIN STATUS_HIERARCHY
      /\ STATUS_HIERARCHY[sheet[k].peak] >= STATUS_HIERARCHY[sheet[k].status]

\* C5 witness: an update moved a row to a higher lifecycle status.
C5_Witness ==
  /\ lastOp.kind = "update"
  /\ sheet[lastOp.row - 1].status \in Lifecycle
  /\ lastOp.before[1].status \in Lifecycle
  /\ StatusRank(sheet[lastOp.row - 1].status) > StatusRank(lastOp.before[1].status)

\* C6: a Rejected extraction reconciled into a row whose status and peak are
\* the same lifecycle status S sets status to Rejected and leaves peak = S.
C6_TerminalOverride ==
  (/\ lastOp.kind = "update"
   /\ lastOp.status = REJECTED_STATUS
   /\ lastOp.before[1].status \in Lifecycle
   /\ lastOp.before[1].peak = lastOp.before[1].status) =>
     /\ sheet[lastOp.row - 1].status = REJECTED_STATUS
     /\ sheet[lastOp.row - 1].peak = lastOp.before[1].peak

\* C6 witness: Rejected reconciled into a row at Interview Scheduled / peak
\* Interview Scheduled.
C6_Witness ==
  /\ lastOp.kind = "update"
  /\ lastOp.status = REJECTED_STATUS
  /\ lastOp.before[1].status = INTERVIEW_STATUS
  /\ lastOp.before[1].peak = INTERVIEW_STATUS

\* C7: a message extracted with the sentinel company appends a new row that
\* carries its id and changes no existing row.
C7_ManualAlwaysCreates ==
  [][(i' = i + 1 /\ lastOp'.kind # "error" /\ lastOp'.company = MANUAL_REVIEW_NEEDED) =>
       /\ lastOp'.kind = "create"
       /\ Len(sheet') = Len(sheet) + 1
       /\ SubSeq(sheet', 1, Len(sheet)) = sheet
       /\ sheet'[Len(sheet')].emailId = lastOp'.msg
       /\ sheet'[Len(sheet')].company = MANUAL_REVIEW_NEEDED]_vars

\* C7 witness: a second sentinel-company message was reconciled while a
\* sentinel-company row of another message existed.
C7_Witness ==
  /\ Wrote
  /\ lastOp.company = MANUAL_REVIEW_NEEDED
  /\ \E k \in 1..Len(sheet) : /\ sheet[k].company = MANUAL_REVIEW_NEEDED
                              /\ sheet[k].emailId # lastOp.msg

ChangedRows(old, new) ==
  {k \in 1..Len(old) : k > Len(new) \/ new[k] # old[k]}

\* C9: a per-message step whose reconciliation completes writes exactly one
\* row: it appends one row and changes none, or changes one row and appends
\* none.
C9_ExactlyOneWrite ==
  [][(i' = i + 1 /\ lastOp'.kind # "error") =>
       \/ /\ Len(sheet') = Len(sheet) + 1
          /\ ChangedRows(sheet, sheet') = {}
       \/ /\ Len(sheet') = Len(sheet)
          /\ Cardinality(ChangedRows(sheet, sheet')) = 1]_vars

\* C9 witness: an update was written while the sheet held another row.
C9_Witness ==
  /\ lastOp.kind = "update"
  /\ Len(sheet) >= 2

\* C10 as stated: on the update path status becomes the new status if
\* rank(new) >= rank(current) or the new status is Rejected or Offer
\* Received, whatever the current status; otherwise it is unchanged.
C10_Original ==
  lastOp.kind = "update" =>
    sheet[lastOp.row - 1].status =
      IF \/ StatusRank(lastOp.status) >= StatusRank(lastOp.before[1].status)
         \/ lastOp.status \in {REJECTED_STATUS, OFFER_STATUS}
      THEN lastOp.status
      ELSE lastOp.before[1].status

\* C10 amended: a row whose status is Offer Accepted keeps it unless the new
\* status is Offer Accepted; any other row gets the new status if
\* rank(new) >= rank(current) or the new status is Rejected or Offer
\* Received, and keeps its status otherwise.
C10_StatusOverwrite ==
  lastOp.kind = "update" =>
    sheet[lastOp.row - 1].status =
      IF lastOp.before[1].status = ACCEPTED_STATUS /\ lastOp.status # ACCEPTED_STATUS
      THEN lastOp.before[1].status
      ELSE IF \/ StatusRank(lastOp.status) >= StatusRank(lastOp.before[1].status)
              \/ lastOp.status \in {REJECTED_STATUS, OFFER_STATUS}
           THEN lastOp.status
           ELSE lastOp.before[1].status

\* C10 witness: Rejected arrived for a row at Offer Accepted and the row
\* kept Offer Accepted.
C10_Witness ==
  /\ lastOp.kind = "update"
  /\ lastOp.status = REJECTED_STATUS
  /\ lastOp.before[1].status = ACCEPTED_STATUS
  /\ sheet[lastOp.row - 1].status = ACCEPTED_STATUS

\* C11: for every row into which only statuses of the hierarchy were
\* reconciled, peakStatus is the highest-ranked status outside the
\* peak-exclusion set among the statuses reconciled into the row so far
\* (Applied if none), whatever the order in which they arrived.
C11_PeakIsHighestObserved ==
  \A k \in 1..Len(sheet) :
    ~ observed[k].offHierarchy => sheet[k].peak = observed[k].highest

\* C12: after a run that the budget check stopped, every message that was
\* fetched but not processed is absent from the idempotence set (of the run
\* and as rebuilt from the sheet) and its thread still carries the
\* "To Process" label after the run's relabeling.
C12_CutOffStaysAvailable ==
  pc = "dashboard" =>
    \A k \in i..Len(messagesToSort) :
      /\ messagesToSort[k] \notin processedEmailIds
      /\ messagesToSort[k] \notin PreloadIds(sheet)
      /\ ThreadOf(messagesToSort[k]) \in toProcessLbl

\* C13: every message that is in the mailbox in a thread carrying the
\* "To Process" label is eventually folded into the sheet (a row created or
\* updated for it) by some run.
C13_AtLeastOnce ==
  \A m \in MsgIds :
    (m \in mail /\ ThreadOf(m) \in toProcessLbl) ~> (m \in folded \cup foldedThisRun)

C15_ThreadGranularRelabel ==
  [][(pc = "relabel" /\ pc' = "dashboard") =>
       /\ \A t \in (toProcessLbl \ toProcessLbl') \cup (processedLbl' \ processedLbl) :
            /\ t \notin notDone
            /\ \E m \in foldedThisRun : ThreadOf(m) = t
       /\ \A t \in notDone \cap toProcessLbl : t \in toProcessLbl']_vars

\* C15 witness: after the relabeling of a complete batch, a thread with two
\* messages in the batch, one of them manual or failed and one written,
\* still carries "To Process", and another thread was moved to "Processed".
C15_Witness ==
  /\ pc = "dashboard"
  /\ i > Len(messagesToSort)
  /\ \E t \in notDone \cap toProcessLbl :
       /\ Cardinality({k \in 1..Len(messagesToSort) : ThreadOf(messagesToSort[k]) = t}) >= 2
       /\ \E m \in foldedThisRun : ThreadOf(m) = t
  /\ \E u \in processedLbl \ toProcessLbl :
       u \in DOMAIN threadProcessingOutcomes /\ threadProcessingOutcomes[u] = "done"

\* C16: every per-message step of a run handles the message of the batch
\* with the earliest date among those the run has not handled yet: the batch
\* is observed in ascending date order, whatever the order of the fetch.
C16_AscendingDateOrder ==
  [][(pc = "loop" /\ i' = i + 1) =>
       /\ lastOp'.msg = messagesToSort[i]
       /\ \A k \in 1..(i - 1) : DateOf(messagesToSort[k]) < DateOf(messagesToSort[i])
       /\ \A k \in (i + 1)..Len(messagesToSort) :
            DateOf(messagesToSort[i]) < DateOf(messagesToSort[k])]_vars

\* C16 witness: a batch of three messages was handled to the end although
\* the fetch (thread by thread) had delivered a later message first.
C16_Witness ==
  /\ pc = "relabel"
  /\ Len(messagesToSort) >= 3
  /\ i > Len(messagesToSort)
  /\ \E j, k \in 1..Len(messagesToSort) :
       /\ j < k
       /\ \/ ThreadOf(messagesToSort[j]) > ThreadOf(messagesToSort[k])
          \/ /\ ThreadOf(messagesToSort[j]) = ThreadOf(messagesToSort[k])
             /\ messagesToSort[j] > messagesToSort[k]

\* the response of the last attempt
LastResponse == responses[Len(responses)]
\* callGemini_forApplicationDetails has returned
Returned == opc \in {"returned", "extracted"} /\ Len(responses) > 0

\* C17: when the last response carries text that is not parseable JSON or
\* lacks one of the three keys, callGemini_forApplicationDetails returns
\* null and the caller takes company and title from extractCompanyAndTitle.
C17_MalformedIsUnavailable ==
  (Returned /\ LastResponse.kind \in {"badJson", "missingKey"}) =>
     /\ geminiResult.null
     /\ opc = "extracted" =>
          /\ extraction.source = "fallback"
          /\ extraction.company = extractCompanyAndTitle(email).company
          /\ extraction.title = extractCompanyAndTitle(email).title

\* C18: at most maxAttempts requests are sent, a request after the first is
\* sent only when the one before it was answered with HTTP 429, and after
\* any other failure the function has returned null.
C18_RetryOnlyOnRateLimit ==
  /\ attempt <= maxAttempts
  /\ Len(responses) <= maxAttempts
  /\ \A k \in 1..(Len(responses) - 1) : responses[k].kind = "rateLimit"
  /\ (Len(responses) > 0
       /\ LastResponse.kind \in {"httpError", "exception", "badEnvelope", "unexpected"}) =>
       opc # "calling" /\ geminiResult.null

\* C19: a response with a content-safety block is never followed by another
\* request, and the caller takes company and title from
\* extractCompanyAndTitle as it does when the oracle is unavailable.
C19_BlockIsUnavailable ==
  /\ \A k \in 1..(Len(responses) - 1) : responses[k].kind # "blocked"
  /\ (opc = "extracted" /\ Len(responses) > 0 /\ LastResponse.kind = "blocked") =>
       /\ extraction.source = "fallback"
       /\ extraction.company = extractCompanyAndTitle(email).company
       /\ extraction.title = extractCompanyAndTitle(email).title

\* C20: when the oracle answered with the three keys, the status the caller
\* ends with is: the result of the keyword scan if the oracle status is
\* missing, the sentinel or "Update/Other" and the scan found something other
\* than Applied; the status of the oracle result in every other case.
C20_KeywordScanRefinesStatus ==
  (opc = "extracted" /\ Len(responses) > 0 /\ LastResponse.kind = "ok") =>
     LET keywordStatus == parseBodyForStatus(email.keywords)
     IN /\ extraction.source = "oracle"
        /\ extraction.status =
             IF /\ LastResponse.status \in {NullStatus, MANUAL_REVIEW_NEEDED, UPDATE_OTHER}
                /\ keywordStatus # DEFAULT_STATUS
             THEN keywordStatus
             ELSE geminiResult.status

\* C20 witness: the oracle said "Update/Other", the body holds a rejection
\* keyword and an interview keyword, and the caller ended with Rejected.
C20_Witness ==
  /\ opc = "extracted"
  /\ Len(responses) > 0
  /\ LastResponse.kind = "ok"
  /\ LastResponse.status = UPDATE_OTHER
  /\ {"rejection", "interview"} \subseteq email.keywords
  /\ extraction.status = REJECTED_STATUS

\* C21: on the regex / keyword path and on the fallback path the status is
\* decided by the matching category of highest precedence, rejection > offer
\* > interview > assessment > viewed, and is Applied when no category matches.
C21_FallbackPrecedence ==
  (opc = "extracted" /\ extraction.source \in {"fallback", "regex"}) =>
     LET has(c) == c \in email.keywords
     IN /\ has("rejection") => extraction.status = REJECTED_STATUS
        /\ (~ has("rejection") /\ has("offer")) => extraction.status = OFFER_STATUS
        /\ (~ has("rejection") /\ ~ has("offer") /\ has("interview")) =>
             extraction.status = INTERVIEW_STATUS
        /\ (~ has("rejection") /\ ~ has("offer") /\ ~ has("interview")
             /\ has("assessment")) => extraction.status = ASSESSMENT_STATUS
        /\ (email.keywords = {"viewed"}) => extraction.status = APPLICATION_VIEWED_STATUS
        /\ (email.keywords = {}) => extraction.status = DEFAULT_STATUS

\* C21 witness: the oracle was unavailable (HTTP error) and the body holds
\* "unfortunately", "other candidates" and an interview keyword: Rejected.
C21_Witness ==
  /\ opc = "extracted"
  /\ extraction.source = "fallback"
  /\ geminiResult.null
  /\ email.keywords =
       categoriesOf({"unfortunately", "other candidates", "schedule an interview"})
  /\ extraction.status = REJECTED_STATUS

\* C22: the status cell of every row holds a key of STATUS_HIERARCHY.
C22_StatusInVocabulary ==
  \A k \in 1..Len(sheet) : sheet[k].status \in DOMAIN STATUS_HIERARCHY

\* C23: when an update brings a status that is no key of STATUS_HIERARCHY,
\* the rank it gets in the status comparison and the rank it gets in the
\* peak comparison are not greater than the rank of any key.
C23_UnknownIsMinimumRank ==
  (lastOp.kind = "update" /\ lastOp.status \notin DOMAIN STATUS_HIERARCHY) =>
     \A s \in DOMAIN STATUS_HIERARCHY :
       /\ StatusRank(lastOp.status) <= STATUS_HIERARCHY[s]
       /\ PeakRank(lastOp.status) <= STATUS_HIERARCHY[s]

\* C24: an update never lowers the emailDate or the lastUpdate of the row,
\* and changes either only to the date of the message when that is later.
C24_DatesNeverDecrease ==
  lastOp.kind = "update" =>
    LET new == sheet[lastOp.row - 1]
        old == lastOp.before[1]
    IN /\ new.emailDate >= old.emailDate
       /\ new.lastUpdate >= old.lastUpdate
       /\ new.emailDate # old.emailDate =>
            new.emailDate = DateOf(lastOp.msg) /\ DateOf(lastOp.msg) > old.emailDate
       /\ new.lastUpdate # old.lastUpdate =>
            new.lastUpdate = DateOf(lastOp.msg) /\ DateOf(lastOp.msg) > old.lastUpdate

\* C24 witness: a message older than the row's dates was reconciled into the
\* row, and the dates stayed.
C24_Witness ==
  /\ lastOp.kind = "update"
  /\ DateOf(lastOp.msg) < lastOp.before[1].lastUpdate
  /\ sheet[lastOp.row - 1].lastUpdate = lastOp.before[1].lastUpdate
  /\ sheet[lastOp.row - 1].emailDate = lastOp.before[1].emailDate

\* C25: an update changes the company (the title) of a row only to the
\* incoming company (title), and only when that is not the sentinel; a
\* resolved company or title is never replaced by the sentinel.
C25_SentinelNeverOverwrites ==
  lastOp.kind = "update" =>
    LET new == sheet[lastOp.row - 1]
        old == lastOp.before[1]
    IN /\ new.company # old.company =>
            new.company = lastOp.company /\ Known(lastOp.company)
       /\ new.title # old.title =>
            new.title = lastOp.title /\ Known(lastOp.title)
       /\ Known(old.company) => Known(new.company)
       /\ Known(old.title) => Known(new.title)

\* C25 witness: a message with the sentinel title updated a row with a
\* resolved title, which stayed.
C25_Witness ==
  /\ lastOp.kind = "update"
  /\ lastOp.title = MANUAL_REVIEW_NEEDED
  /\ Known(lastOp.before[1].title)
  /\ sheet[lastOp.row - 1].title = lastOp.before[1].title

\* C26: after every update the notes cell of the written row holds what it
\* held before the update.
C26_NotesPreserved ==
  lastOp.kind = "update" =>
    sheet[lastOp.row - 1].notes = lastOp.before[1].notes

\* C26 witness: a row carrying a note of the user was updated.
C26_Witness ==
  /\ lastOp.kind = "update"
  /\ lastOp.before[1].notes # ""
  /\ sheet[lastOp.row - 1].emailId # lastOp.before[1].emailId

\* C27: a run ends (the position returns to idle) only by the step that
\* invokes updateDashboardMetrics.
C27_RunEndsWithDashboard ==
  [][(pc # "idle" /\ pc' = "idle") => pc = "dashboard"]_vars

\* C28: while the reconciliations follow the scenario, the sheet holds exactly
\* one row, at (Applied, Applied) after the first message, at (Interview
\* Scheduled, Interview Scheduled) after the second and at (Rejected,
\* Interview Scheduled) after the third.
C28_ScenarioOutcome ==
  scenarioStep \in 1..3 =>
    /\ Len(sheet) = 1
    /\ <<sheet[1].company, sheet[1].title>> = ScenarioIdentity
    /\ <<sheet[1].status, sheet[1].peak>> =
         CASE scenarioStep = 1 -> <<DEFAULT_STATUS, DEFAULT_STATUS>>
           [] scenarioStep = 2 -> <<INTERVIEW_STATUS, INTERVIEW_STATUS>>
           [] scenarioStep = 3 -> <<REJECTED_STATUS, INTERVIEW_STATUS>>

\* C28 witness: the third message of the scenario has been reconciled.
C28_Witness ==
  /\ scenarioStep = 3
  /\ lastOp.kind = "update"
  /\ lastOp.status = REJECTED_STATUS

\* C29: a run filters only at its start. The queue of the second run holds no
\* id it preloaded, and every message its loop has passed has been reconciled
\* by it, whatever the other run has written to the sheet in the meantime.
C29_FilterOnlyAtStart ==
  runB.pc # "idle" =>
    /\ \A k \in 1..Len(runB.msgs) : runB.msgs[k] \notin runB.preloaded
    /\ runB.done = {runB.msgs[k] : k \in 1..(runB.i - 1)}

\* C29 witness: both runs have reconciled the same message and each has
\* appended a row for it.
C29_Witness ==
  \E m \in foldedThisRun \cap runB.done :
    \E j, k \in 1..Len(sheet) :
      j < k /\ sheet[j].emailId = m /\ sheet[k].emailId = m

\* C30: the number of messages reconciled in one run never exceeds the
\* per-run limit.
C30_MessageCap == Cardinality(foldedThisRun) <= THREAD_PROCESSING_LIMIT

\* C31: the id of the message of the last iteration is in the idempotence
\* set of the run exactly if the iteration wrote a row (append or update).
C31_MarkedIffWritten ==
  (pc \in {"loop", "relabel"} /\ lastOp.kind \in {"create", "update", "error"}) =>
    (lastOp.msg \in processedEmailIds <=> lastOp.kind \in {"create", "update"})

\* C32: an update for an extraction with a known title goes to a row whose
\* title is that title (case-insensitive); the highest-row fall-back is taken
\* only by an extraction whose title is unknown.
C32_FallbackOnlyForUnknownTitle ==
  (lastOp.kind = "update" /\ Known(lastOp.title)) =>
    toLowerCase(lastOp.before[1].title) = toLowerCase(lastOp.title)

\* C33: no row's peak is a peak-exclusion value: Rejected, Offer Accepted,
\* the manual-review sentinel or Update/Other.
C33_PeakNeverExcluded ==
  \A k \in 1..Len(sheet) : sheet[k].peak \notin exclPeak

\* C33 witness: a row has just been created with the excluded status
\* Rejected and its peak is Applied.
C33_Witness ==
  /\ lastOp.kind = "create"
  /\ lastOp.status = REJECTED_STATUS
  /\ sheet[lastOp.row - 1].status = REJECTED_STATUS
  /\ sheet[lastOp.row - 1].peak = DEFAULT_STATUS

\* C34: the sweep changes a row only if its status is non-empty, not the
\* sentinel, not Rejected, Offer Accepted or Withdrawn, and its last update
\* is older than the threshold; such a row gets status Rejected and the date
\* of the sweep; company, title, peak, notes, Email ID and email date of
\* every row stay.
C34_SweepFrame ==
  lastOp.kind = "sweep" =>
    /\ Len(sheet) = Len(lastOp.before)
    /\ \A k \in 1..Len(sheet) :
         LET new == sheet[k]
             old == lastOp.before[k]
         IN /\ new # old =>
                 /\ old.status \notin {"", MANUAL_REVIEW_NEEDED, REJECTED_STATUS,
                                       ACCEPTED_STATUS, WITHDRAWN}
                 /\ old.lastUpdate < staleThresholdDate(new.lastUpdate)
                 /\ new.status = REJECTED_STATUS
            /\ new = [old EXCEPT !.status = new.status, !.lastUpdate = new.lastUpdate]

\* C34 witness: the sweep rejected one row and left another row alone whose
\* last update is as old but whose status is final.
C34_Witness ==
  /\ lastOp.kind = "sweep"
  /\ \E j, k \in 1..Len(sheet) :
       /\ sheet[j] # lastOp.before[j]
       /\ sheet[k] = lastOp.before[k]
       /\ sheet[k].status \in {ACCEPTED_STATUS, WITHDRAWN, ""}
       /\ sheet[k].lastUpdate <= lastOp.before[j].lastUpdate

\* C35: the write of the sweep changes no peak and no Email ID, and changes
\* a status only to Rejected.
C35_SweepNeverReverts ==
  lastOp.kind = "sweep" =>
    \A k \in 1..Len(lastOp.before) :
      /\ sheet[k].peak = lastOp.before[k].peak
      /\ sheet[k].emailId = lastOp.before[k].emailId
      /\ sheet[k].status \in {lastOp.before[k].status, REJECTED_STATUS}

\* C36: every message of a thread that carries the leads processed label is
\* in the processed-id set (preloaded, or handled without error in this run).
C36_MovedThreadFullyHandled ==
  \A t \in leads.processed :
    \A k \in 1..leads.sizes[t] :
      messagesInThread(leads.sizes, t)[k] \in leads.ids

\* C37: the project holds at most one trigger per handler function and event
\* type, and a call made while the active spreadsheet is the template
\* creates no trigger.
C37_OneTriggerPerHandler ==
  /\ \A key \in TriggerKeys : projectTriggers[key] <= 1
  /\ lastTriggerCall.template => ~lastTriggerCall.created

\* C37 witness: every handler has its trigger, and the last call, made on the
\* template for a handler that had a trigger already, created none.
C37_Witness ==
  /\ \A key \in TriggerKeys : projectTriggers[key] = 1
  /\ lastTriggerCall.template
  /\ lastTriggerCall.existed
  /\ ~lastTriggerCall.created

====
